---- MODULE Spec2Model ----
(***************************************************************************)
(* The rule-based annotation pipeline of CompleteMedicalAnalyzer.tsx       *)
(* (performNLPAnalysis): drug detection, interaction matching, side-effect *)
(* matching, summary and ranking.                                          *)
(*                                                                         *)
(* A JavaScript string is a sequence of one-character strings, so that     *)
(* toLowerCase, includes and split are computed character by character.    *)
(* A confidence is an integer number of tenths (0.9 is 9).  The doubles    *)
(* the code computes differ from the tenths by at most one unit in the     *)
(* last place (0.6 + 0.3 is 0.8999999999999999), each tenth is reached by  *)
(* one sequence of additions only, and no such sum crosses a threshold     *)
(* (0.3 + 0.1 is exactly 0.4), so every comparison the code makes has the  *)
(* same outcome on the tenths.                                             *)
(*                                                                         *)
(* Specifications: Spec (one call, tables of every arrangement),           *)
(* SpecRuns (repeated calls), SpecStages (one call, stage by stage),       *)
(* SpecCompiled (one call on the compiled-in tables), SpecNames (one call  *)
(* for every set of compiled-in drug names), and the component's handlers: *)
(* SpecAnalyze (handleAnalyze), SpecAnalyzeFair (the same, its timers      *)
(* firing), SpecUpload (handleFileUpload, extractTextFromPDF),             *)
(* SpecAnalyzeUpload (an upload during an analysis), SpecCopy              *)
(* (copyResults).                                                          *)
(***************************************************************************)
EXTENDS Integers, Sequences, FiniteSets, TLC

VARIABLES text, drugPatterns, drugInteractions, sideEffectPatterns, results

\* the calls of performNLPAnalysis that returned, oldest first: argument and
\* result (kept where calls are repeated, SpecRuns)
VARIABLES calls

\* one call taken stage by stage: the stage it is in, the three arrays it fills,
\* the row each matcher handles next, and which matcher took each step so far
VARIABLES phase, drugsSoFar, interactionsSoFar, sideEffectsSoFar,
          nextRule, nextEffect, order

\* the component's state (useState): uploadedFileName and, like results, the
\* clipboard are <<>> for null and <<v>> for a value
VARIABLES article, isAnalyzing, isProcessingPdf, progress, pdfProgress, copied,
          uploadedFileName

\* around the component: the title of the last toast ("" for none), the text on
\* the clipboard, the handler that took the last step, the runs of handleAnalyze
\* and of handleFileUpload that wait for a timer or a read, the values the last
\* run of handleAnalyze passed to setProgress, the pending setCopied(false) timers
VARIABLES toast, clipboard, event, analyses, uploads, progressLog, copyTimers

\* the file input: the file it holds (the one picked last) with what became of
\* that file's upload, and whether an upload has failed since no upload was
\* pending
VARIABLES lastPicked, batchFailed

tables == <<drugPatterns, drugInteractions, sideEffectPatterns>>

ui == <<article, isAnalyzing, isProcessingPdf, progress, pdfProgress, copied,
        uploadedFileName, toast, clipboard, event, analyses, uploads, progressLog,
        copyTimers, lastPicked, batchFailed>>

stages == <<phase, drugsSoFar, interactionsSoFar, sideEffectsSoFar,
            nextRule, nextEffect, order>>

vars == <<text, tables, results, calls, stages, ui>>

----------------------------------------------------------------------------
(* String primitives *)

upperToLower ==
  [A |-> "a", B |-> "b", C |-> "c", D |-> "d", E |-> "e", F |-> "f", G |-> "g",
   H |-> "h", I |-> "i", J |-> "j", K |-> "k", L |-> "l", M |-> "m", N |-> "n",
   O |-> "o", P |-> "p", Q |-> "q", R |-> "r", S |-> "s", T |-> "t", U |-> "u",
   V |-> "v", W |-> "w", X |-> "x", Y |-> "y", Z |-> "z"]

upperCase == DOMAIN upperToLower

\* String.prototype.toLowerCase
toLowerCase(s) ==
  [i \in 1..Len(s) |-> IF s[i] \in upperCase THEN upperToLower[s[i]] ELSE s[i]]

\* String.prototype.includes: t occurs in s at some offset (the empty t always does)
includes(s, t) ==
  \E i \in 0..(Len(s) - Len(t)) : \A j \in 1..Len(t) : s[i + j] = t[j]

\* String.prototype.split(' '): the pieces between single spaces, empty pieces kept
\* the white space String.prototype.trim removes (the characters the texts use)
whiteSpace == {" ", "\n", "\t"}

RECURSIVE trimStart(_)
trimStart(s) ==
  IF s # <<>> /\ Head(s) \in whiteSpace THEN trimStart(Tail(s)) ELSE s

RECURSIVE trimEnd(_)
trimEnd(s) ==
  IF s # <<>> /\ s[Len(s)] \in whiteSpace THEN trimEnd(SubSeq(s, 1, Len(s) - 1)) ELSE s

\* s.trim()
trim(s) == trimEnd(trimStart(s))

RECURSIVE split(_)
split(s) ==
  IF \A i \in 1..Len(s) : s[i] # " "
  THEN <<s>>
  ELSE LET k == CHOOSE i \in 1..Len(s) : s[i] = " " /\ \A j \in 1..(i - 1) : s[j] # " "
       IN  <<SubSeq(s, 1, k - 1)>> \o split(SubSeq(s, k + 1, Len(s)))

----------------------------------------------------------------------------
(* Scoring constants, in tenths *)

NameScore == 9
AliasScore == 8
ContextScore == 1
DrugThreshold == 5
MaxConfidence == 10
MinFoundDrugs == 2
InteractionOffset == 2
InteractionBase == 8
InteractionStep == 1
EffectScore == 6
RelatedDrugScore == 3
AdverseScore == 1
EffectThreshold == 4

medicalContext ==
  << <<"m","g">>, <<"d","o","s","e">>, <<"t","a","b","l","e","t">>, <<"p","r","e","s","c","r","i","b","e","d">>, <<"a","d","m","i","n","i","s","t","e","r","e","d">>, <<"t","r","e","a","t","m","e","n","t">> >>

adverseKeywords ==
  << <<"s","i","d","e"," ","e","f","f","e","c","t">>, <<"a","d","v","e","r","s","e">>, <<"r","e","a","c","t","i","o","n">>, <<"t","o","x","i","c","i","t","y">>, <<"c","o","m","p","l","i","c","a","t","i","o","n">> >>

\* Math.min(confidence, 1.0)
\* variant: Math.min left out
clampConfidenceOff(confidence) == confidence

clampConfidence(confidence) ==
  IF confidence < MaxConfidence THEN confidence ELSE MaxConfidence

----------------------------------------------------------------------------
(* Drug detection *)

\* drug.aliases.forEach: each alias found in the text adds AliasScore
RECURSIVE addAliases(_, _, _)
addAliases(normalizedText, aliases, confidence) ==
  IF aliases = <<>> THEN confidence
  ELSE addAliases(normalizedText, Tail(aliases),
                  IF includes(normalizedText, toLowerCase(Head(aliases)))
                  THEN confidence + AliasScore ELSE confidence)

\* variant: the context boost without the check of the drug name
contextAppliesWithoutName(normalizedText, drugName, context) ==
  includes(normalizedText, context)

\* the condition of the context boost, for one context keyword
contextApplies(normalizedText, drugName, context) ==
  includes(normalizedText, drugName) /\ includes(normalizedText, context)

\* medicalContext.forEach: each keyword found together with the name adds ContextScore
RECURSIVE addContext(_, _, _, _)
addContext(normalizedText, drugName, contexts, confidence) ==
  IF contexts = <<>> THEN confidence
  ELSE addContext(normalizedText, drugName, Tail(contexts),
                  IF contextApplies(normalizedText, drugName, Head(contexts))
                  THEN confidence + ContextScore ELSE confidence)

\* the confidence accumulated for one entry of drugPatterns, before the threshold
drugConfidence(normalizedText, drug) ==
  LET drugName == toLowerCase(drug.name)
      c1 == IF includes(normalizedText, drugName) THEN NameScore ELSE 0
      c2 == addAliases(normalizedText, drug.aliases, c1)
  IN  addContext(normalizedText, drugName, medicalContext, c2)

\* if (confidence > 0.5)
\* variant: the threshold test left out, every row of the table is emitted
drugPassesAlways(confidence) == confidence >= 0

drugPasses(confidence) == confidence > DrugThreshold

\* drugPatterns.forEach: detectedDrugs, in table order
RECURSIVE detectDrugs(_, _)
detectDrugs(normalizedText, patterns) ==
  IF patterns = <<>> THEN <<>>
  ELSE LET drug == Head(patterns)
           confidence == drugConfidence(normalizedText, drug)
       IN  (IF drugPasses(confidence)
            THEN << [name |-> drug.name, confidence |-> clampConfidence(confidence)] >>
            ELSE <<>>)
           \o detectDrugs(normalizedText, Tail(patterns))

----------------------------------------------------------------------------
(* Interaction matching *)

\* variant: a participant matches only when a detected name contains it
fuzzyMatchOneWay(detected, drug) ==
  includes(toLowerCase(detected), toLowerCase(drug))

\* variant: a participant also matches the category of a detected drug
fuzzyMatchByCategory(detected, drug) ==
  \/ includes(toLowerCase(detected), toLowerCase(drug))
  \/ includes(toLowerCase(drug), toLowerCase(detected))
  \/ \E k \in 1..Len(drugPatterns) :
       /\ drugPatterns[k].name = detected
       /\ \/ includes(toLowerCase(drugPatterns[k].category), toLowerCase(drug))
          \/ includes(toLowerCase(drug), toLowerCase(drugPatterns[k].category))

\* one rule participant against one detected name: containment in either direction
fuzzyMatch(detected, drug) ==
  \/ includes(toLowerCase(detected), toLowerCase(drug))
  \/ includes(toLowerCase(drug), toLowerCase(detected))

\* interaction.drugs.filter(drug => drugNames.some(...))
foundDrugs(drugs, drugNames) ==
  SelectSeq(drugs, LAMBDA drug : \E i \in 1..Len(drugNames) : fuzzyMatch(drugNames[i], drug))

\* if (foundDrugs.length >= 2)
interactionFires(found) == found >= MinFoundDrugs

\* variant: the interaction confidence clamped like the other two
interactionConfidenceClamped(found) ==
  clampConfidence(InteractionBase + (found - InteractionOffset) * InteractionStep)

\* 0.8 + (foundDrugs.length - 2) * 0.1
\* variant: the two participants a rule needs are not taken off the count
interactionConfidenceFromCount(found) ==
  InteractionBase + found * InteractionStep

interactionConfidence(found) ==
  InteractionBase + (found - InteractionOffset) * InteractionStep

\* drugInteractions.forEach: detectedInteractions, in table order
RECURSIVE detectInteractions(_, _)
detectInteractions(drugNames, rules) ==
  IF rules = <<>> THEN <<>>
  ELSE LET interaction == Head(rules)
           found == Len(foundDrugs(interaction.drugs, drugNames))
       IN  (IF interactionFires(found)
            THEN << [interaction |-> interaction.interaction,
                     severity    |-> interaction.severity,
                     confidence  |-> interactionConfidence(found)] >>
            ELSE <<>>)
           \o detectInteractions(drugNames, Tail(rules))

----------------------------------------------------------------------------
(* Side-effect matching *)

\* variant: the effect counts as mentioned only as a whole phrase
effectMentionedAsPhrase(normalizedText, effect) ==
  includes(normalizedText, toLowerCase(effect))

\* effectWords.some(word => normalizedText.includes(word))
effectMentioned(normalizedText, effect) ==
  LET effectWords == split(toLowerCase(effect))
  IN  \E i \in 1..Len(effectWords) : includes(normalizedText, effectWords[i])

\* one associated name against one detected name
relatedMatch(detected, drug) ==
  includes(toLowerCase(detected), toLowerCase(drug))

\* sideEffect.drugs.some(drug => drugNames.some(...))
\* variant: the interaction loop takes the names it matched out of the array the
\* side-effect loop reads, so that none is left once an interaction is emitted
relatedDrugPresentShared(drugs, drugNames) ==
  /\ interactionsSoFar = <<>>
  /\ \E i \in 1..Len(drugs) : \E j \in 1..Len(drugNames) :
        includes(toLowerCase(drugNames[j]), toLowerCase(drugs[i]))

relatedDrugPresent(drugs, drugNames) ==
  \E i \in 1..Len(drugs) : \E j \in 1..Len(drugNames) : relatedMatch(drugNames[j], drugs[i])

\* adverseKeywords.some(keyword => normalizedText.includes(keyword))
adverseMentioned(normalizedText) ==
  \E i \in 1..Len(adverseKeywords) : includes(normalizedText, adverseKeywords[i])

\* the confidence accumulated for one entry of sideEffectPatterns, before the threshold
sideEffectConfidence(normalizedText, drugNames, sideEffect) ==
  LET c1 == IF effectMentioned(normalizedText, sideEffect.effect) THEN EffectScore ELSE 0
      c2 == IF relatedDrugPresent(sideEffect.drugs, drugNames)
            THEN c1 + RelatedDrugScore ELSE c1
  IN  IF adverseMentioned(normalizedText) THEN c2 + AdverseScore ELSE c2

\* variant: a score at the threshold passes
sideEffectPassesAtThreshold(confidence) == confidence >= EffectThreshold

\* if (confidence > 0.4)
sideEffectPasses(confidence) == confidence > EffectThreshold

\* sideEffectPatterns.forEach: detectedSideEffects, in table order
RECURSIVE detectSideEffects(_, _, _)
detectSideEffects(normalizedText, drugNames, patterns) ==
  IF patterns = <<>> THEN <<>>
  ELSE LET sideEffect == Head(patterns)
           confidence == sideEffectConfidence(normalizedText, drugNames, sideEffect)
       IN  (IF sideEffectPasses(confidence)
            THEN << [effect     |-> sideEffect.effect,
                     frequency  |-> sideEffect.frequency,
                     confidence |-> clampConfidence(confidence)] >>
            ELSE <<>>)
           \o detectSideEffects(normalizedText, drugNames, Tail(patterns))

----------------------------------------------------------------------------
(* Summary and ranking *)

high == <<"h","i","g","h">>
medium == <<"m","e","d","i","u","m">>
low == <<"l","o","w">>
Common == <<"C","o","m","m","o","n">>
Uncommon == <<"U","n","c","o","m","m","o","n">>
Rare == <<"R","a","r","e">>

\* variant: every interaction and every side effect counted, whatever its label
summaryOfAll(detectedDrugs, detectedInteractions, detectedSideEffects) ==
  [totalDrugs           |-> Len(detectedDrugs),
   criticalInteractions |-> Len(detectedInteractions),
   majorSideEffects     |-> Len(detectedSideEffects)]

\* const summary = {...}
summaryOf(detectedDrugs, detectedInteractions, detectedSideEffects) ==
  [totalDrugs           |-> Len(detectedDrugs),
   criticalInteractions |-> Len(SelectSeq(detectedInteractions, LAMBDA i : i.severity = high)),
   majorSideEffects     |-> Len(SelectSeq(detectedSideEffects, LAMBDA e : e.frequency = Common))]

\* variant: the comparator of an ascending sort
compareAscending(a, b) == a.confidence - b.confidence

\* the comparator (a, b) => b.confidence - a.confidence
compareConfidence(a, b) == b.confidence - a.confidence

\* variant: x goes in front of the elements it ties with
RECURSIVE insertBeforeTies(_, _)
insertBeforeTies(sorted, x) ==
  IF sorted = <<>> THEN <<x>>
  ELSE IF (x.confidence - Head(sorted).confidence) < 0
       THEN <<Head(sorted)>> \o insertBeforeTies(Tail(sorted), x)
       ELSE <<x>> \o sorted

\* one step of the stable sort: x goes behind every element that does not sort after it
RECURSIVE insertSorted(_, _)
insertSorted(sorted, x) ==
  IF sorted = <<>> THEN <<x>>
  ELSE IF compareConfidence(Head(sorted), x) <= 0
       THEN <<Head(sorted)>> \o insertSorted(Tail(sorted), x)
       ELSE <<x>> \o sorted

\* Array.prototype.sort with compareConfidence (stable since ECMAScript 2019)
RECURSIVE sortFrom(_, _)
sortFrom(sorted, list) ==
  IF list = <<>> THEN sorted
  ELSE sortFrom(insertSorted(sorted, Head(list)), Tail(list))

sortByConfidence(list) == sortFrom(<<>>, list)

\* variant: the three arrays declared outside the function, so that the entries of
\* the stored result are still in them when the next call starts
performNLPAnalysisAccumulating(t, patterns, rules, effects) ==
  LET normalizedText == toLowerCase(t)
      before == IF results = <<>>
                THEN [drugs |-> <<>>, interactions |-> <<>>, sideEffects |-> <<>>]
                ELSE results[1]
      detectedDrugs == before.drugs \o detectDrugs(normalizedText, patterns)
      drugNames == [i \in 1..Len(detectedDrugs) |-> detectedDrugs[i].name]
      detectedInteractions == before.interactions \o detectInteractions(drugNames, rules)
      detectedSideEffects ==
        before.sideEffects \o detectSideEffects(normalizedText, drugNames, effects)
      summary == summaryOf(detectedDrugs, detectedInteractions, detectedSideEffects)
  IN  [drugs        |-> sortByConfidence(detectedDrugs),
       interactions |-> sortByConfidence(detectedInteractions),
       sideEffects  |-> sortByConfidence(detectedSideEffects),
       summary      |-> summary]

\* variant: a stored result is returned again instead of analysing the new text
performNLPAnalysisCached(t, patterns, rules, effects) ==
  IF results # <<>> THEN results[1]
  ELSE LET normalizedText == toLowerCase(t)
           detectedDrugs == detectDrugs(normalizedText, patterns)
           drugNames == [i \in 1..Len(detectedDrugs) |-> detectedDrugs[i].name]
           detectedInteractions == detectInteractions(drugNames, rules)
           detectedSideEffects == detectSideEffects(normalizedText, drugNames, effects)
           summary == summaryOf(detectedDrugs, detectedInteractions, detectedSideEffects)
       IN  [drugs        |-> sortByConfidence(detectedDrugs),
            interactions |-> sortByConfidence(detectedInteractions),
            sideEffects  |-> sortByConfidence(detectedSideEffects),
            summary      |-> summary]

\* performNLPAnalysis(text), the tables being the component's constants
performNLPAnalysis(t, patterns, rules, effects) ==
  LET normalizedText == toLowerCase(t)
      detectedDrugs == detectDrugs(normalizedText, patterns)
      drugNames == [i \in 1..Len(detectedDrugs) |-> detectedDrugs[i].name]
      detectedInteractions == detectInteractions(drugNames, rules)
      detectedSideEffects == detectSideEffects(normalizedText, drugNames, effects)
      summary == summaryOf(detectedDrugs, detectedInteractions, detectedSideEffects)
  IN  [drugs        |-> sortByConfidence(detectedDrugs),
       interactions |-> sortByConfidence(detectedInteractions),
       sideEffects  |-> sortByConfidence(detectedSideEffects),
       summary      |-> summary]

----------------------------------------------------------------------------
(* Inputs: the text and the three reference tables *)

MaxFrags == 3

\* entries a drug table is drawn from (three rows of the component's drugPatterns)
DrugPool ==
  << [name |-> <<"A","s","p","i","r","i","n">>, aliases |-> << <<"a","c","e","t","y","l","s","a","l","i","c","y","l","i","c"," ","a","c","i","d">>, <<"A","S","A">> >>, category |-> <<"N","S","A","I","D">>],
     [name |-> <<"I","n","s","u","l","i","n">>, aliases |-> << <<"h","u","m","a","l","o","g">>, <<"n","o","v","o","l","o","g">> >>, category |-> <<"H","o","r","m","o","n","e">>],
     [name |-> <<"A","t","o","r","v","a","s","t","a","t","i","n">>, aliases |-> << <<"l","i","p","i","t","o","r">> >>, category |-> <<"S","t","a","t","i","n">>] >>

\* rules an interaction table is drawn from: exact names, a class name inside a
\* detected name next to a longer name around one, and five participants
InteractionPool ==
  << [drugs |-> << <<"I","n","s","u","l","i","n">>, <<"A","t","o","r","v","a","s","t","a","t","i","n">> >>,
      interaction |-> <<"A","l","t","e","r","e","d"," ","g","l","u","c","o","s","e"," ","c","o","n","t","r","o","l">>, severity |-> high],
     [drugs |-> << <<"S","t","a","t","i","n">>, <<"I","n","s","u","l","i","n"," ","g","l","a","r","g","i","n","e">> >>,
      interaction |-> <<"R","e","d","u","c","e","d"," ","s","t","a","t","i","n"," ","b","e","n","e","f","i","t">>, severity |-> medium],
     [drugs |-> << <<"I","n","s","u","l","i","n">>, <<"I","n","s","u","l","i","n"," ","g","l","a","r","g","i","n","e">>, <<"I","n","s","u","l","i","n"," ","l","i","s","p","r","o">>, <<"A","t","o","r","v","a","s","t","a","t","i","n">>, <<"S","t","a","t","i","n">> >>,
      interaction |-> <<"A","d","d","i","t","i","v","e"," ","m","e","t","a","b","o","l","i","c"," ","e","f","f","e","c","t","s">>, severity |-> low] >>

\* rules a side-effect table is drawn from: a class name inside a detected name, a
\* longer name around one, and a row of the component's sideEffectPatterns
SideEffectPool ==
  << [effect |-> <<"W","e","i","g","h","t"," ","g","a","i","n">>, drugs |-> << <<"S","t","a","t","i","n">>, <<"I","n","s","u","l","i","n">> >>, frequency |-> Common],
     [effect |-> <<"W","e","i","g","h","t"," ","l","o","s","s">>, drugs |-> << <<"I","n","s","u","l","i","n"," ","g","l","a","r","g","i","n","e">> >>, frequency |-> Rare],
     [effect |-> <<"H","y","p","o","g","l","y","c","e","m","i","a">>, drugs |-> << <<"I","n","s","u","l","i","n">>, <<"M","e","t","f","o","r","m","i","n">> >>, frequency |-> Common] >>

\* pieces a text is put together from
Fragments ==
  << <<"A","s","p","i","r","i","n">>, <<"a","s","a">>, <<"i","n","s","u","l","i","n">>, <<"a","t","o","r","v","a","s","t","a","t","i","n">>,
     <<"5","0","0","m","g"," ","d","o","s","e"," ","t","a","b","l","e","t"," ","p","r","e","s","c","r","i","b","e","d"," ","a","d","m","i","n","i","s","t","e","r","e","d"," ","t","r","e","a","t","m","e","n","t">>,
     <<"w","e","i","g","h","t">>, <<"a","d","v","e","r","s","e"," ","r","e","a","c","t","i","o","n">> >>

\* the chosen fragments, in the order of Fragments, separated by single spaces
RECURSIVE joinFrom(_, _)
joinFrom(i, chosen) ==
  IF i > Len(Fragments) THEN <<>>
  ELSE LET rest == joinFrom(i + 1, chosen)
       IN  IF i \notin chosen THEN rest
           ELSE IF rest = <<>> THEN Fragments[i]
           ELSE Fragments[i] \o <<" ">> \o rest

\* texts of white space only, next to the empty text that choosing no fragment gives
BlankTexts == { <<" ">>, <<" ", "\n", " ">> }

Texts ==
  { joinFrom(1, chosen) :
      chosen \in { c \in SUBSET (1..Len(Fragments)) : Cardinality(c) <= MaxFrags } }
    \cup BlankTexts

\* the ways to pick distinct rows out of n, any number of them in any order
Picks(n) ==
  UNION { { s \in [1..k -> 1..n] : \A i, j \in 1..k : i # j => s[i] # s[j] } : k \in 0..n }

\* the table made of the picked rows of a pool
Rows(pool, pick) == [i \in 1..Len(pick) |-> pool[pick[i]]]

\* the component as mounted: the useState initial values, nothing pending
UiIdle ==
  /\ article = <<>>
  /\ isAnalyzing = FALSE
  /\ isProcessingPdf = FALSE
  /\ progress = 0
  /\ pdfProgress = 0
  /\ copied = FALSE
  /\ uploadedFileName = <<>>
  /\ toast = ""
  /\ clipboard = <<>>
  /\ event = ""
  /\ analyses = <<>>
  /\ uploads = <<>>
  /\ progressLog = <<>>
  /\ copyTimers = 0
  /\ lastPicked = <<>>
  /\ batchFailed = FALSE

\* no call is being taken stage by stage
StagesIdle ==
  /\ phase = "detect"
  /\ drugsSoFar = <<>>
  /\ interactionsSoFar = <<>>
  /\ sideEffectsSoFar = <<>>
  /\ nextRule = 1
  /\ nextEffect = 1
  /\ order = <<>>

\* The interaction table and the side-effect table take the same pick of rows:
\* no step of the analysis reads both tables, so every combination of a text, a
\* drug table and one of the two rule tables is still an initial state.
Init ==
  /\ text \in Texts
  /\ \E pick \in Picks(Len(DrugPool)) : drugPatterns = Rows(DrugPool, pick)
  /\ \E pick \in Picks(Len(InteractionPool)) :
        /\ drugInteractions = Rows(InteractionPool, pick)
        /\ sideEffectPatterns = Rows(SideEffectPool, pick)
  /\ results = <<>>
  /\ calls = <<>>
  /\ StagesIdle
  /\ UiIdle

\* one call of performNLPAnalysis(text); results is <<>> before it and <<r>> after
Analyze ==
  /\ results = <<>>
  /\ results' = << performNLPAnalysis(text, drugPatterns, drugInteractions, sideEffectPatterns) >>
  /\ UNCHANGED <<text, tables, calls, stages, ui>>

Next == Analyze

Spec == Init /\ [][Next]_vars

----------------------------------------------------------------------------
(* Repeated calls: the analysis is run again and again, on changing texts *)

MaxCalls == 3

\* texts of the repeated calls: two drugs with an interaction, a drug with a side
\* effect, a blank text
RunTexts ==
  { <<"i","n","s","u","l","i","n"," ","a","t","o","r","v","a","s","t","a","t","i","n">>, <<"A","s","p","i","r","i","n"," ","i","n","s","u","l","i","n"," ","w","e","i","g","h","t">>, <<" ">> }

InitRuns ==
  /\ text \in RunTexts
  /\ drugPatterns = DrugPool
  /\ \E pick \in Picks(Len(InteractionPool)) :
        /\ drugInteractions = Rows(InteractionPool, pick)
        /\ sideEffectPatterns = Rows(SideEffectPool, pick)
  /\ results = <<>>
  /\ calls = <<>>
  /\ StagesIdle
  /\ UiIdle

\* the next call gets another text
ChangeText ==
  /\ text' \in RunTexts \ {text}
  /\ UNCHANGED <<tables, results, calls, stages, ui>>

\* one more call of performNLPAnalysis(text), whatever was stored before; the
\* function assigns to its own locals only and the tables are left as they are
AnalyzeAgain ==
  /\ Len(calls) < MaxCalls
  /\ LET r == performNLPAnalysis(text, drugPatterns, drugInteractions, sideEffectPatterns)
     IN  /\ results' = <<r>>
         /\ calls' = Append(calls, [text |-> text, result |-> r])
  /\ UNCHANGED <<text, tables, stages, ui>>

NextRuns == ChangeText \/ AnalyzeAgain

SpecRuns == InitRuns /\ [][NextRuns]_vars

----------------------------------------------------------------------------
(* One call taken stage by stage, the two matchers in any order: each step of  *)
(* a matcher is one turn of its forEach, and the turns of the two loops may    *)
(* alternate in every way.  The code itself runs all the turns of the          *)
(* interaction loop first.                                                     *)

\* texts of the staged call
StageTexts ==
  { <<"i","n","s","u","l","i","n"," ","a","t","o","r","v","a","s","t","a","t","i","n">>, <<"A","s","p","i","r","i","n"," ","i","n","s","u","l","i","n"," ","w","e","i","g","h","t">>, <<"i","n","s","u","l","i","n"," ","a","t","o","r","v","a","s","t","a","t","i","n"," ","w","e","i","g","h","t">>, <<>> }

InitStages ==
  /\ text \in StageTexts
  /\ drugPatterns = DrugPool
  /\ \E pick \in Picks(Len(InteractionPool)) : drugInteractions = Rows(InteractionPool, pick)
  /\ \E pick \in Picks(Len(SideEffectPool)) : sideEffectPatterns = Rows(SideEffectPool, pick)
  /\ results = <<>>
  /\ calls = <<>>
  /\ StagesIdle
  /\ UiIdle

\* stage 1: the drugPatterns loop
DetectDrugs ==
  /\ phase = "detect"
  /\ drugsSoFar' = detectDrugs(toLowerCase(text), drugPatterns)
  /\ phase' = "match"
  /\ UNCHANGED <<text, tables, results, calls, ui, interactionsSoFar,
                 sideEffectsSoFar, nextRule, nextEffect, order>>

drugNamesOf(detected) == [i \in 1..Len(detected) |-> detected[i].name]

\* stage 2, one turn of the drugInteractions loop
MatchInteraction ==
  /\ phase = "match"
  /\ nextRule <= Len(drugInteractions)
  /\ interactionsSoFar' =
        interactionsSoFar \o
          detectInteractions(drugNamesOf(drugsSoFar), << drugInteractions[nextRule] >>)
  /\ nextRule' = nextRule + 1
  /\ order' = Append(order, "interaction")
  /\ UNCHANGED <<text, tables, results, calls, ui, phase, drugsSoFar,
                 sideEffectsSoFar, nextEffect>>

\* stage 3, one turn of the sideEffectPatterns loop
MatchSideEffect ==
  /\ phase = "match"
  /\ nextEffect <= Len(sideEffectPatterns)
  /\ sideEffectsSoFar' =
        sideEffectsSoFar \o
          detectSideEffects(toLowerCase(text), drugNamesOf(drugsSoFar),
                            << sideEffectPatterns[nextEffect] >>)
  /\ nextEffect' = nextEffect + 1
  /\ order' = Append(order, "sideEffect")
  /\ UNCHANGED <<text, tables, results, calls, ui, phase, drugsSoFar,
                 interactionsSoFar, nextRule>>

\* stage 4: the summary and the returned, sorted lists
Aggregate ==
  /\ phase = "match"
  /\ nextRule > Len(drugInteractions)
  /\ nextEffect > Len(sideEffectPatterns)
  /\ results' = << [drugs        |-> sortByConfidence(drugsSoFar),
                    interactions |-> sortByConfidence(interactionsSoFar),
                    sideEffects  |-> sortByConfidence(sideEffectsSoFar),
                    summary      |-> summaryOf(drugsSoFar, interactionsSoFar,
                                               sideEffectsSoFar)] >>
  /\ phase' = "done"
  /\ UNCHANGED <<text, tables, calls, ui, drugsSoFar, interactionsSoFar,
                 sideEffectsSoFar, nextRule, nextEffect, order>>

NextStages == DetectDrugs \/ MatchInteraction \/ MatchSideEffect \/ Aggregate

SpecStages == InitStages /\ [][NextStages]_vars

----------------------------------------------------------------------------
(* The tables the component is compiled with, and calls on them *)

CompiledDrugPatterns ==
  << [name |-> <<"A","s","p","i","r","i","n">>, aliases |-> << <<"a","c","e","t","y","l","s","a","l","i","c","y","l","i","c"," ","a","c","i","d">>, <<"A","S","A">> >>, category |-> <<"N","S","A","I","D">>],
     [name |-> <<"M","e","t","f","o","r","m","i","n">>, aliases |-> << <<"g","l","u","c","o","p","h","a","g","e">> >>, category |-> <<"A","n","t","i","d","i","a","b","e","t","i","c">>],
     [name |-> <<"L","i","s","i","n","o","p","r","i","l">>, aliases |-> << <<"p","r","i","n","i","v","i","l">>, <<"z","e","s","t","r","i","l">> >>, category |-> <<"A","C","E"," ","I","n","h","i","b","i","t","o","r">>],
     [name |-> <<"A","t","o","r","v","a","s","t","a","t","i","n">>, aliases |-> << <<"l","i","p","i","t","o","r">> >>, category |-> <<"S","t","a","t","i","n">>],
     [name |-> <<"W","a","r","f","a","r","i","n">>, aliases |-> << <<"c","o","u","m","a","d","i","n">> >>, category |-> <<"A","n","t","i","c","o","a","g","u","l","a","n","t">>],
     [name |-> <<"D","i","g","o","x","i","n">>, aliases |-> << <<"l","a","n","o","x","i","n">> >>, category |-> <<"C","a","r","d","i","a","c"," ","G","l","y","c","o","s","i","d","e">>],
     [name |-> <<"I","n","s","u","l","i","n">>, aliases |-> << <<"h","u","m","a","l","o","g">>, <<"n","o","v","o","l","o","g">> >>, category |-> <<"H","o","r","m","o","n","e">>],
     [name |-> <<"A","m","o","x","i","c","i","l","l","i","n">>, aliases |-> << <<"a","m","o","x","i","l">> >>, category |-> <<"A","n","t","i","b","i","o","t","i","c">>],
     [name |-> <<"P","r","e","d","n","i","s","o","n","e">>, aliases |-> << <<"d","e","l","t","a","s","o","n","e">> >>, category |-> <<"C","o","r","t","i","c","o","s","t","e","r","o","i","d">>],
     [name |-> <<"I","b","u","p","r","o","f","e","n">>, aliases |-> << <<"a","d","v","i","l">>, <<"m","o","t","r","i","n">> >>, category |-> <<"N","S","A","I","D">>] >>

CompiledDrugInteractions ==
  << [drugs |-> << <<"W","a","r","f","a","r","i","n">>, <<"A","s","p","i","r","i","n">> >>,
      interaction |-> <<"I","n","c","r","e","a","s","e","d"," ","b","l","e","e","d","i","n","g"," ","r","i","s","k"," ","d","u","e"," ","t","o"," ","c","o","m","b","i","n","e","d"," ","a","n","t","i","c","o","a","g","u","l","a","n","t"," ","e","f","f","e","c","t","s">>,
      severity |-> high],
     [drugs |-> << <<"M","e","t","f","o","r","m","i","n">>, <<"C","o","n","t","r","a","s","t"," ","a","g","e","n","t","s">> >>,
      interaction |-> <<"R","i","s","k"," ","o","f"," ","l","a","c","t","i","c"," ","a","c","i","d","o","s","i","s",","," ","e","s","p","e","c","i","a","l","l","y"," ","i","n"," ","p","a","t","i","e","n","t","s"," ","w","i","t","h"," ","k","i","d","n","e","y"," ","d","y","s","f","u","n","c","t","i","o","n">>,
      severity |-> high],
     [drugs |-> << <<"D","i","g","o","x","i","n">>, <<"D","i","u","r","e","t","i","c","s">> >>,
      interaction |-> <<"R","i","s","k"," ","o","f"," ","d","i","g","i","t","a","l","i","s"," ","t","o","x","i","c","i","t","y"," ","d","u","e"," ","t","o"," ","p","o","t","a","s","s","i","u","m"," ","d","e","p","l","e","t","i","o","n">>,
      severity |-> medium],
     [drugs |-> << <<"A","C","E"," ","I","n","h","i","b","i","t","o","r","s">>, <<"N","S","A","I","D","s">> >>,
      interaction |-> <<"R","e","d","u","c","e","d"," ","a","n","t","i","h","y","p","e","r","t","e","n","s","i","v","e"," ","e","f","f","e","c","t"," ","a","n","d"," ","p","o","t","e","n","t","i","a","l"," ","k","i","d","n","e","y"," ","d","a","m","a","g","e">>,
      severity |-> medium],
     [drugs |-> << <<"I","n","s","u","l","i","n">>, <<"B","e","t","a","-","b","l","o","c","k","e","r","s">> >>,
      interaction |-> <<"M","a","s","k","i","n","g"," ","o","f"," ","h","y","p","o","g","l","y","c","e","m","i","c"," ","s","y","m","p","t","o","m","s">>,
      severity |-> medium] >>

CompiledSideEffectPatterns ==
  << [effect |-> <<"G","a","s","t","r","o","i","n","t","e","s","t","i","n","a","l"," ","b","l","e","e","d","i","n","g">>, drugs |-> << <<"A","s","p","i","r","i","n">>, <<"N","S","A","I","D","s">> >>, frequency |-> Common],
     [effect |-> <<"H","y","p","o","g","l","y","c","e","m","i","a">>, drugs |-> << <<"I","n","s","u","l","i","n">>, <<"M","e","t","f","o","r","m","i","n">> >>, frequency |-> Common],
     [effect |-> <<"H","y","p","e","r","k","a","l","e","m","i","a">>, drugs |-> << <<"A","C","E"," ","I","n","h","i","b","i","t","o","r","s">>, <<"L","i","s","i","n","o","p","r","i","l">> >>, frequency |-> Uncommon],
     [effect |-> <<"M","u","s","c","l","e"," ","w","e","a","k","n","e","s","s">>, drugs |-> << <<"S","t","a","t","i","n","s">> >>, frequency |-> Rare],
     [effect |-> <<"N","a","u","s","e","a">>, drugs |-> << <<"M","e","t","f","o","r","m","i","n">>, <<"D","i","g","o","x","i","n">> >>, frequency |-> Common],
     [effect |-> <<"D","i","z","z","i","n","e","s","s">>, drugs |-> << <<"A","C","E"," ","I","n","h","i","b","i","t","o","r","s">>, <<"D","i","u","r","e","t","i","c","s">> >>, frequency |-> Common],
     [effect |-> <<"H","e","a","d","a","c","h","e">>, drugs |-> << <<"V","a","s","o","d","i","l","a","t","o","r","s">> >>, frequency |-> Common],
     [effect |-> <<"R","a","s","h">>, drugs |-> << <<"A","n","t","i","b","i","o","t","i","c","s">>, <<"A","m","o","x","i","c","i","l","l","i","n">> >>, frequency |-> Uncommon],
     [effect |-> <<"W","e","i","g","h","t"," ","g","a","i","n">>, drugs |-> << <<"C","o","r","t","i","c","o","s","t","e","r","o","i","d","s">>, <<"I","n","s","u","l","i","n">> >>, frequency |-> Common],
     [effect |-> <<"D","r","y"," ","c","o","u","g","h">>, drugs |-> << <<"A","C","E"," ","I","n","h","i","b","i","t","o","r","s">> >>, frequency |-> Common] >>

MaxWords == 3

\* words a text for the compiled-in tables is put together from
Words ==
  << <<"A","s","p","i","r","i","n">>, <<"5","0","0","m","g">>, <<"p","r","e","s","c","r","i","b","e","d">>, <<"w","a","r","f","a","r","i","n">>, <<"a","s","p","i","r","i","n">>, <<"W","a","r","f","a","r","i","n">>,
     <<"n","a","u","s","e","a">>, <<"m","e","t","f","o","r","m","i","n">> >>

\* the chosen words, in the order of Words, separated by single spaces
RECURSIVE joinWords(_, _)
joinWords(i, chosen) ==
  IF i > Len(Words) THEN <<>>
  ELSE LET rest == joinWords(i + 1, chosen)
       IN  IF i \notin chosen THEN rest
           ELSE IF rest = <<>> THEN Words[i]
           ELSE Words[i] \o <<" ">> \o rest

CompiledTexts ==
  { joinWords(1, chosen) :
      chosen \in { c \in SUBSET (1..Len(Words)) : Cardinality(c) <= MaxWords } }

InitCompiled ==
  /\ text \in CompiledTexts
  /\ drugPatterns = CompiledDrugPatterns
  /\ drugInteractions = CompiledDrugInteractions
  /\ sideEffectPatterns = CompiledSideEffectPatterns
  /\ results = <<>>
  /\ calls = <<>>
  /\ StagesIdle
  /\ UiIdle

SpecCompiled == InitCompiled /\ [][Next]_vars

\* the names of the chosen rows of the compiled-in drug table, in table order,
\* separated by single spaces
RECURSIVE joinNames(_, _)
joinNames(i, chosen) ==
  IF i > Len(CompiledDrugPatterns) THEN <<>>
  ELSE LET rest == joinNames(i + 1, chosen)
       IN  IF i \notin chosen THEN rest
           ELSE IF rest = <<>> THEN CompiledDrugPatterns[i].name
           ELSE CompiledDrugPatterns[i].name \o <<" ">> \o rest

\* one text for every set of rows of the compiled-in drug table: the interaction
\* matcher reads the detected names only
NameTexts == { joinNames(1, chosen) : chosen \in SUBSET (1..Len(CompiledDrugPatterns)) }

InitNames ==
  /\ text \in NameTexts
  /\ drugPatterns = CompiledDrugPatterns
  /\ drugInteractions = CompiledDrugInteractions
  /\ sideEffectPatterns = CompiledSideEffectPatterns
  /\ results = <<>>
  /\ calls = <<>>
  /\ StagesIdle
  /\ UiIdle

SpecNames == InitNames /\ [][Next]_vars

----------------------------------------------------------------------------
(* The component: the textarea and handleAnalyze.  A step is what a handler   *)
(* does between two awaits: the click up to the first timer, each timer up to *)
(* the next, the last timer with the call of performNLPAnalysis (an async     *)
(* function that awaits nothing) up to the end of finally.                    *)

uploadState == <<isProcessingPdf, pdfProgress, uploadedFileName, uploads, lastPicked,
                 batchFailed>>
copyState == <<copied, clipboard, copyTimers>>

\* what the user types or pastes into the textarea
TypedTexts ==
  { <<>>, <<" ", "\n">>, <<"A","s","p","i","r","i","n"," ","5","0","0","m","g"," ","p","r","e","s","c","r","i","b","e","d">>, <<"w","a","r","f","a","r","i","n"," ","a","s","p","i","r","i","n">> }

InitAnalyze ==
  /\ text = <<>>
  /\ drugPatterns = CompiledDrugPatterns
  /\ drugInteractions = CompiledDrugInteractions
  /\ sideEffectPatterns = CompiledSideEffectPatterns
  /\ results = <<>>
  /\ calls = <<>>
  /\ StagesIdle
  /\ UiIdle

\* Textarea onChange: setArticle(e.target.value)
EditArticle ==
  /\ article' \in TypedTexts \ {article}
  /\ event' = "onChange"
  /\ UNCHANGED <<text, tables, results, calls, stages, isAnalyzing, progress, analyses,
                 progressLog, toast, uploadState, copyState>>

\* variant: the article compared with the empty string, trim left out
isEmptyArticle(a) == a = <<>>

\* !article.trim()
isBlankArticle(a) == trim(a) = <<>>

\* the progress of the five steps of handleAnalyze
steps == <<20, 40, 60, 80, 100>>

\* variant: the loop left one step early
loopDoneEarly(step) == step >= Len(steps) - 1

\* for (const step of steps) has no step left
loopDone(step) == step = Len(steps)

\* variant: the button without its disabled attribute
analyzeAlwaysEnabled(analyzing) == FALSE

\* <Button onClick={handleAnalyze} disabled={isAnalyzing}>
analyzeDisabled(analyzing) == analyzing

\* a click on the Analyze button (disabled while isAnalyzing): the guard, or
\* setIsAnalyzing(true), setProgress(0) and the first turn of the loop up to its
\* timer; the run keeps the article of the render the click happened in
handleAnalyze ==
  /\ ~analyzeDisabled(isAnalyzing)
  /\ event' = "handleAnalyze"
  /\ IF isBlankArticle(article)
     THEN /\ toast' = "No Content"
          /\ UNCHANGED <<isAnalyzing, progress, analyses, progressLog>>
     ELSE /\ isAnalyzing' = TRUE
          /\ progress' = steps[1]
          /\ progressLog' = <<0, steps[1]>>
          /\ analyses' = Append(analyses, [article |-> article, step |-> 1])
          /\ UNCHANGED toast
  /\ UNCHANGED <<text, tables, results, calls, stages, article, uploadState, copyState>>

\* the sequence without its i-th element
RemoveAt(seq, i) == SubSeq(seq, 1, i - 1) \o SubSeq(seq, i + 1, Len(seq))

\* a timer of the loop fires and steps are left: the next setProgress
ProgressStep ==
  \E i \in 1..Len(analyses) :
    /\ ~loopDone(analyses[i].step)
    /\ progress' = steps[analyses[i].step + 1]
    /\ progressLog' = Append(progressLog, steps[analyses[i].step + 1])
    /\ analyses' = [analyses EXCEPT ![i].step = @ + 1]
    /\ event' = "handleAnalyze:timer"
    /\ UNCHANGED <<text, tables, results, calls, stages, article, isAnalyzing, toast,
                   uploadState, copyState>>

\* variant: the article of the latest render is analysed, not the one of the click
articleNow(run, current) == current

\* performNLPAnalysis(article): article is the constant of the render in which
\* the click happened
articleOfRun(run, current) == run.article

\* variant: setIsAnalyzing(false) as the last statement of try, no finally
analyzingWithoutFinally(threw) == threw

\* finally { setIsAnalyzing(false) } runs after try and after catch
analyzingAfterRun(threw) == FALSE

\* the last timer fires: performNLPAnalysis(article) on the article the run
\* keeps, setResults, the toast and, in finally, setIsAnalyzing(false)
FinishAnalysis ==
  \E i \in 1..Len(analyses) :
    /\ loopDone(analyses[i].step)
    /\ LET analysed == articleOfRun(analyses[i], article)
       IN /\ text' = analysed
          /\ results' = << performNLPAnalysis(analysed, drugPatterns,
                                              drugInteractions,
                                              sideEffectPatterns) >>
    /\ toast' = "Analysis Complete"
    /\ isAnalyzing' = analyzingAfterRun(FALSE)
    /\ analyses' = RemoveAt(analyses, i)
    /\ event' = "handleAnalyze:done"
    /\ UNCHANGED <<tables, calls, stages, article, progress, progressLog,
                   uploadState, copyState>>

\* the last timer fires and the rest of try throws: the catch block with its
\* toast, then finally; results is not written
AnalysisFails ==
  \E i \in 1..Len(analyses) :
    /\ loopDone(analyses[i].step)
    /\ toast' = "Analysis Failed"
    /\ isAnalyzing' = analyzingAfterRun(TRUE)
    /\ analyses' = RemoveAt(analyses, i)
    /\ event' = "handleAnalyze:catch"
    /\ UNCHANGED <<text, tables, results, calls, stages, article, progress,
                   progressLog, uploadState, copyState>>

NextAnalyze ==
  EditArticle \/ handleAnalyze \/ ProgressStep \/ FinishAnalysis \/ AnalysisFails

SpecAnalyze == InitAnalyze /\ [][NextAnalyze]_vars

\* the timers of the loop fire (setTimeout), and the continuation after the
\* last one runs: it returns or it throws
SpecAnalyzeFair ==
  /\ SpecAnalyze
  /\ WF_vars(ProgressStep)
  /\ WF_vars(AnalysisFails \/ FinishAnalysis)

----------------------------------------------------------------------------
(* The component: handleFileUpload and extractTextFromPDF.  A read of a file, *)
(* the opening of a PDF and the reading of each of its pages either succeed   *)
(* or fail; which one is the environment's choice.                            *)

MaxUploads == 2

pdfType == "application/pdf"

\* the files the user picks: name, type, and the text of each page (a text file
\* has its content for only page)
Files ==
  { [name |-> "notes.txt", type |-> "text/plain", pages |-> << <<"w","a","r","f","a","r","i","n"," ","a","s","p","i","r","i","n">> >>],
    [name |-> "letter.txt", type |-> "text/plain", pages |-> << <<"m","e","t","f","o","r","m","i","n"," ","n","a","u","s","e","a">> >>],
    [name |-> "paper.pdf", type |-> pdfType,
     pages |-> << <<"A","s","p","i","r","i","n"," ","5","0","0","m","g">>, <<"p","r","e","s","c","r","i","b","e","d">> >>] }

\* the component as mounted, or after an analysis of a typed article
InitUpload ==
  /\ drugPatterns = CompiledDrugPatterns
  /\ drugInteractions = CompiledDrugInteractions
  /\ sideEffectPatterns = CompiledSideEffectPatterns
  /\ calls = <<>>
  /\ StagesIdle
  /\ \/ text = <<>> /\ results = <<>> /\ UiIdle
     \/ /\ text = <<"A","s","p","i","r","i","n"," ","5","0","0","m","g"," ","p","r","e","s","c","r","i","b","e","d">>
        /\ results = << performNLPAnalysis(text, drugPatterns, drugInteractions,
                                           sideEffectPatterns) >>
        /\ article = text
        /\ isAnalyzing = FALSE
        /\ progress = 100
        /\ progressLog = <<0>> \o steps
        /\ toast = "Analysis Complete"
        /\ event = "handleAnalyze:done"
        /\ analyses = <<>>
        /\ isProcessingPdf = FALSE /\ pdfProgress = 0 /\ uploadedFileName = <<>>
        /\ uploads = <<>> /\ lastPicked = <<>> /\ batchFailed = FALSE
        /\ copied = FALSE /\ clipboard = <<>> /\ copyTimers = 0

\* the input fires onChange when the file picked is not the one it holds
inputChanges(file) == IF lastPicked = <<>> THEN TRUE ELSE lastPicked[1].file # file

\* upload i ends: the upload of the file picked last is the last of the pending
\* ones for as long as it is pending
pickedAfter(i, outcome) ==
  IF lastPicked # <<>> /\ lastPicked[1].outcome = "pending" /\ i = Len(uploads)
  THEN << [lastPicked[1] EXCEPT !.outcome = outcome] >>
  ELSE lastPicked

\* the input's onChange with a file picked (the Upload button is disabled while
\* isProcessingPdf): setUploadedFileName, then the read of a text file is
\* started, or extractTextFromPDF runs up to its first await
handleFileUpload ==
  \E file \in Files :
    /\ ~isProcessingPdf
    /\ Len(uploads) < MaxUploads
    /\ inputChanges(file)
    /\ lastPicked' = << [file |-> file, outcome |-> "pending"] >>
    /\ batchFailed' = (uploads # <<>> /\ batchFailed)
    /\ uploadedFileName' = << file.name >>
    /\ uploads' = Append(uploads, [file |-> file, page |-> 0, fullText |-> <<>>])
    /\ IF file.type = pdfType
       THEN /\ toast' = "Processing PDF"
            /\ isProcessingPdf' = TRUE
            /\ pdfProgress' = 0
       ELSE UNCHANGED <<toast, isProcessingPdf, pdfProgress>>
    /\ event' = "handleFileUpload"
    /\ UNCHANGED <<text, tables, results, calls, stages, article, isAnalyzing, progress,
                   analyses, progressLog, copyState>>

\* (pageNum / totalPages) * 100, exact for the page counts of Files
pageProgress(pageNum, totalPages) == (pageNum * 100) \div totalPages

\* reader.onload: the promise resolves, the toast, setArticle(text)
FileLoaded ==
  \E i \in 1..Len(uploads) :
    /\ uploads[i].file.type # pdfType
    /\ toast' = "File Uploaded"
    /\ article' = uploads[i].file.pages[1]
    /\ uploads' = RemoveAt(uploads, i)
    /\ event' = "handleFileUpload:loaded"
    /\ lastPicked' = pickedAfter(i, "loaded")
    /\ UNCHANGED <<text, tables, results, calls, stages, isAnalyzing, progress, analyses,
                   progressLog, isProcessingPdf, pdfProgress, uploadedFileName, copyState,
                   batchFailed>>

\* file.arrayBuffer() and getDocument resolve: the first turn of the page loop
\* up to its first await
PdfOpened ==
  \E i \in 1..Len(uploads) :
    /\ uploads[i].file.type = pdfType
    /\ uploads[i].page = 0
    /\ pdfProgress' = pageProgress(1, Len(uploads[i].file.pages))
    /\ uploads' = [uploads EXCEPT ![i].page = 1]
    /\ event' = "extractTextFromPDF:opened"
    /\ UNCHANGED <<text, tables, results, calls, stages, article, isAnalyzing, progress,
                   analyses, progressLog, isProcessingPdf, uploadedFileName, toast,
                   copyState, lastPicked, batchFailed>>

\* fullText += pageText + '\n\n'
withPage(fullText, pageText) == fullText \o pageText \o <<"\n", "\n">>

\* a page is read and its delay is over, pages are left: the next turn of the loop
PdfNextPage ==
  \E i \in 1..Len(uploads) :
    /\ uploads[i].file.type = pdfType
    /\ uploads[i].page >= 1
    /\ uploads[i].page < Len(uploads[i].file.pages)
    /\ pdfProgress' = pageProgress(uploads[i].page + 1, Len(uploads[i].file.pages))
    /\ uploads' = [uploads EXCEPT
                     ![i].page = @ + 1,
                     ![i].fullText = withPage(@, uploads[i].file.pages[uploads[i].page])]
    /\ event' = "extractTextFromPDF:page"
    /\ UNCHANGED <<text, tables, results, calls, stages, article, isAnalyzing, progress,
                   analyses, progressLog, isProcessingPdf, uploadedFileName, toast,
                   copyState, lastPicked, batchFailed>>

\* the last page is read: setIsProcessingPdf(false), return fullText.trim(), and
\* in handleFileUpload the toast and setArticle(text)
PdfDone ==
  \E i \in 1..Len(uploads) :
    /\ uploads[i].file.type = pdfType
    /\ uploads[i].page = Len(uploads[i].file.pages)
    /\ isProcessingPdf' = FALSE
    /\ toast' = "PDF Processed Successfully"
    /\ article' = trim(withPage(uploads[i].fullText, uploads[i].file.pages[uploads[i].page]))
    /\ uploads' = RemoveAt(uploads, i)
    /\ event' = "handleFileUpload:processed"
    /\ lastPicked' = pickedAfter(i, "loaded")
    /\ UNCHANGED <<text, tables, results, calls, stages, isAnalyzing, progress, analyses,
                   progressLog, pdfProgress, uploadedFileName, copyState, batchFailed>>

\* variant: the text extracted before the failure is written to the article
articleWithPartialText(current, fullText) == trim(fullText)

\* the catch block of handleFileUpload calls no setArticle
articleAfterCatch(current, fullText) == current

\* reader.onerror, or a rejected await of extractTextFromPDF (its catch calls
\* setIsProcessingPdf(false) and throws): the catch block of handleFileUpload
UploadFailed ==
  \E i \in 1..Len(uploads) :
    /\ toast' = "Upload Failed"
    /\ uploadedFileName' = <<>>
    /\ isProcessingPdf' = IF uploads[i].file.type = pdfType THEN FALSE ELSE isProcessingPdf
    /\ article' = articleAfterCatch(article, uploads[i].fullText)
    /\ uploads' = RemoveAt(uploads, i)
    /\ event' = "handleFileUpload:catch"
    /\ lastPicked' = pickedAfter(i, "failed")
    /\ batchFailed' = TRUE
    /\ UNCHANGED <<text, tables, results, calls, stages, isAnalyzing, progress, analyses,
                   progressLog, pdfProgress, copyState>>

NextUpload ==
  \/ EditArticle
  \/ handleFileUpload
  \/ FileLoaded
  \/ PdfOpened
  \/ PdfNextPage
  \/ PdfDone
  \/ UploadFailed

SpecUpload == InitUpload /\ [][NextUpload]_vars

\* the first file is picked while an analysis runs
UploadWhileAnalyzing == isAnalyzing /\ lastPicked = <<>> /\ handleFileUpload

\* an analysis while the article is typed over or replaced by an upload
NextAnalyzeUpload ==
  \/ NextAnalyze
  \/ UploadWhileAnalyzing
  \/ FileLoaded
  \/ PdfOpened
  \/ PdfNextPage
  \/ PdfDone
  \/ UploadFailed

SpecAnalyzeUpload == InitAnalyze /\ [][NextAnalyzeUpload]_vars

----------------------------------------------------------------------------
(* The component: copyResults, the plain-text export of the stored result *)

MaxCopyTimers == 2

\* the character U+2022 that starts an entry line; a module holds ASCII only, so
\* the one character is written as its code point
bullet == "U+2022"

digitChars == <<"0", "1", "2", "3", "4", "5", "6", "7", "8", "9">>

\* String(n) of a count
RECURSIVE toString(_)
toString(n) ==
  IF n < 10 THEN << digitChars[n + 1] >>
  ELSE toString(n \div 10) \o << digitChars[(n % 10) + 1] >>

\* (confidence * 100).toFixed(1): a confidence of c tenths is 10 c percent, and
\* the double the code multiplies rounds to that number with one decimal
percentFixed1(confidence) == toString(confidence * 10) \o <<".", "0">>

\* variant: the severity is written as it is stored
keepCase(s) == s

\* s.toUpperCase()
toUpperCase(s) ==
  [i \in 1..Len(s) |->
     IF \E c \in upperCase : upperToLower[c] = s[i]
     THEN CHOOSE c \in upperCase : upperToLower[c] = s[i]
     ELSE s[i]]

\* lines.join('\n')
RECURSIVE joinLines(_)
joinLines(lines) ==
  IF lines = <<>> THEN <<>>
  ELSE IF Len(lines) = 1 THEN lines[1]
  ELSE lines[1] \o <<"\n">> \o joinLines(Tail(lines))

drugLine(drug) ==
  <<bullet, " ">> \o drug.name \o <<" ","(">> \o percentFixed1(drug.confidence)
    \o <<"%"," ","c","o","n","f","i","d","e","n","c","e",")">>

interactionLine(int) ==
  <<bullet, " ">> \o int.interaction \o <<" ","(">> \o toUpperCase(int.severity)
    \o <<" ","s","e","v","e","r","i","t","y",")">>

sideEffectLine(effect) ==
  <<bullet, " ">> \o effect.effect \o <<" ","(">> \o effect.frequency \o <<")">>

\* the template literal of copyResults
resultText(r) ==
  joinLines(<<
    <<>>,
    <<"D","r","u","g"," ","I","n","s","i","g","h","t"," ","A","n","a","l","y","s","i","s"," ","R","e","s","u","l","t","s">>,
    <<"=","=","=","=","=","=","=","=","=","=","=","=","=","=","=","=","=","=","=","=","=","=","=","=","=","=","=","=">>,
    <<>>,
    <<"S","U","M","M","A","R","Y",":">>,
    <<"-"," ","T","o","t","a","l"," ","D","r","u","g","s"," ","F","o","u","n","d",":"," ">> \o toString(r.summary.totalDrugs),
    <<"-"," ","C","r","i","t","i","c","a","l"," ","I","n","t","e","r","a","c","t","i","o","n","s",":"," ">> \o toString(r.summary.criticalInteractions),
    <<"-"," ","M","a","j","o","r"," ","S","i","d","e"," ","E","f","f","e","c","t","s",":"," ">> \o toString(r.summary.majorSideEffects),
    <<>>,
    <<"D","R","U","G","S"," ","I","D","E","N","T","I","F","I","E","D",":">>,
    joinLines([i \in 1..Len(r.drugs) |-> drugLine(r.drugs[i])]),
    <<>>,
    <<"D","R","U","G"," ","I","N","T","E","R","A","C","T","I","O","N","S",":">>,
    joinLines([i \in 1..Len(r.interactions) |-> interactionLine(r.interactions[i])]),
    <<>>,
    <<"S","I","D","E"," ","E","F","F","E","C","T","S",":">>,
    joinLines([i \in 1..Len(r.sideEffects) |-> sideEffectLine(r.sideEffects[i])]),
    <<" "," "," "," ">> >>)

analyzeState == <<isAnalyzing, progress, analyses, progressLog>>

\* a click on Copy Results: nothing without a result; else the text goes to the
\* clipboard and, the write resolved, setCopied(true), the timer of
\* setCopied(false) and the toast
copyResults ==
  IF results = <<>> THEN UNCHANGED vars
  ELSE /\ copyTimers < MaxCopyTimers
       /\ clipboard' = << resultText(results[1]) >>
       /\ copied' = TRUE
       /\ copyTimers' = copyTimers + 1
       /\ toast' = "Results Copied"
       /\ event' = "copyResults"
       /\ UNCHANGED <<text, tables, results, calls, stages, article, analyzeState,
                      uploadState>>

\* navigator.clipboard.writeText rejects: the handler ends there
CopyRejected ==
  /\ results # <<>>
  /\ event' = "copyResults:rejected"
  /\ UNCHANGED <<text, tables, results, calls, stages, article, analyzeState,
                 uploadState, copyState, toast>>

\* setTimeout(() => setCopied(false), 2000) fires
CopiedTimeout ==
  /\ copyTimers > 0
  /\ copied' = FALSE
  /\ copyTimers' = copyTimers - 1
  /\ event' = "copyResults:timer"
  /\ UNCHANGED <<text, tables, results, calls, stages, article, analyzeState,
                 uploadState, clipboard, toast>>

NextCopy == Analyze \/ copyResults \/ CopyRejected \/ CopiedTimeout

SpecCopy == InitCompiled /\ [][NextCopy]_vars

----------------------------------------------------------------------------
(* Properties of the returned AnalysisResult *)

Returned == results # <<>>
res == results[1]
lowerText == toLowerCase(text)

\* the detected drug names, lowercased
LowerNames == { toLowerCase(res.drugs[i].name) : i \in 1..Len(res.drugs) }

\* a participant or associated name is inside a detected name / around one
Inside(names, drug) == LET d == toLowerCase(drug) IN \E n \in names : includes(n, d)
Around(names, drug) == LET d == toLowerCase(drug) IN \E n \in names : includes(d, n)

\* some word of the effect occurs in the lowercased text lt
Mentioned(lt, effect) ==
  LET words == split(toLowerCase(effect))
  IN  \E w \in 1..Len(words) : includes(lt, words[w])

\* the adverse-event keywords that occur in the lowercased text lt
AdverseFound(lt) == { k \in 1..Len(adverseKeywords) : includes(lt, adverseKeywords[k]) }

Clamped(score) == IF score < 10 THEN score ELSE 10

EntriesOf(list) == { list[i] : i \in 1..Len(list) }

\* the lists as the three matchers leave them, before the ranking
UnsortedDrugs == detectDrugs(lowerText, drugPatterns)
UnsortedNames == [i \in 1..Len(UnsortedDrugs) |-> UnsortedDrugs[i].name]
UnsortedInteractions == detectInteractions(UnsortedNames, drugInteractions)
UnsortedSideEffects == detectSideEffects(lowerText, UnsortedNames, sideEffectPatterns)

NonIncreasing(list) ==
  \A i \in 1..(Len(list) - 1) : list[i].confidence >= list[i + 1].confidence

HasTie(list) ==
  \E i, j \in 1..Len(list) : i < j /\ list[i].confidence = list[j].confidence

\* C1: every confidence of the drugs, interactions and side-effects lists of a
\* returned result lies in [0,1] (0..10 tenths), whatever the text and the tables.
C1_ConfidenceInUnitInterval ==
  Returned =>
    /\ \A i \in 1..Len(res.drugs) : res.drugs[i].confidence \in 0..10
    /\ \A i \in 1..Len(res.interactions) : res.interactions[i].confidence \in 0..10
    /\ \A i \in 1..Len(res.sideEffects) : res.sideEffects[i].confidence \in 0..10

\* C2: each of the three lists of a returned result is sorted non-increasing by
\* confidence.
C2_SortedByConfidence ==
  Returned =>
    /\ NonIncreasing(res.drugs)
    /\ NonIncreasing(res.interactions)
    /\ NonIncreasing(res.sideEffects)

\* a result whose interactions and side effects both left the matchers out of order
C2_Witness ==
  /\ Returned
  /\ Len(res.interactions) >= 2
  /\ Len(res.sideEffects) >= 2
  /\ ~NonIncreasing(UnsortedInteractions)
  /\ ~NonIncreasing(UnsortedSideEffects)

\* the row of each table an entry of a result list comes from (the drug names, the
\* interaction descriptions and the effects of a table are pairwise distinct)
DrugRow(name) == CHOOSE k \in 1..Len(drugPatterns) : drugPatterns[k].name = name
InteractionRow(d) == CHOOSE k \in 1..Len(drugInteractions) : drugInteractions[k].interaction = d
EffectRow(e) == CHOOSE k \in 1..Len(sideEffectPatterns) : sideEffectPatterns[k].effect = e

\* C3: the ranking is stable: entries of one list with equal confidence keep the
\* order of their rows in the reference table.
C3_StableRanking ==
  Returned =>
    /\ \A i, j \in 1..Len(res.drugs) :
         (i < j /\ res.drugs[i].confidence = res.drugs[j].confidence)
           => DrugRow(res.drugs[i].name) < DrugRow(res.drugs[j].name)
    /\ \A i, j \in 1..Len(res.interactions) :
         (i < j /\ res.interactions[i].confidence = res.interactions[j].confidence)
           => InteractionRow(res.interactions[i].interaction)
                < InteractionRow(res.interactions[j].interaction)
    /\ \A i, j \in 1..Len(res.sideEffects) :
         (i < j /\ res.sideEffects[i].confidence = res.sideEffects[j].confidence)
           => EffectRow(res.sideEffects[i].effect) < EffectRow(res.sideEffects[j].effect)

\* a result with ties in the drugs and in the interactions, from tables that also
\* hold a row ranked above the tied ones
C3_Witness ==
  /\ Returned
  /\ HasTie(res.drugs)
  /\ HasTie(res.interactions)
  /\ ~NonIncreasing(UnsortedInteractions)

\* the raw drug score as C4 words it: 0.9 for the name, 0.8 per alias found, 0.1 per
\* context keyword found together with the name (lt is the lowercased text)
C4_RawScore(lt, drug) ==
  LET named == includes(lt, toLowerCase(drug.name))
  IN  (IF named THEN 9 ELSE 0)
      + 8 * Cardinality({ a \in 1..Len(drug.aliases) : includes(lt, toLowerCase(drug.aliases[a])) })
      + (IF named
         THEN Cardinality({ k \in 1..Len(medicalContext) : includes(lt, medicalContext[k]) })
         ELSE 0)

C4_Expected ==
  LET lt == lowerText
  IN  UNION { LET score == C4_RawScore(lt, drugPatterns[k])
              IN  IF score > 5
                  THEN { [name |-> drugPatterns[k].name, confidence |-> Clamped(score)] }
                  ELSE {} : k \in 1..Len(drugPatterns) }

\* C4: a drug entry is emitted iff its raw score exceeds 0.5, once, under its table
\* name and with confidence min(raw score, 1.0).
C4_DrugScoring ==
  Returned =>
    LET expected == C4_Expected
    IN  /\ EntriesOf(res.drugs) = expected
        /\ Len(res.drugs) = Cardinality(expected)

\* a result with a drug found by one alias only (0.8) next to a clamped one (1.0)
C4_Witness ==
  /\ Returned
  /\ \E i, j \in 1..Len(res.drugs) :
       /\ res.drugs[i].confidence = 8
       /\ ~includes(lowerText, toLowerCase(res.drugs[i].name))
       /\ res.drugs[j].confidence = 10
       /\ C4_RawScore(lowerText, drugPatterns[DrugRow(res.drugs[j].name)]) > 10

\* the number of participants of a rule that fuzzy-match a detected drug name
C5_Matched(names, rule) ==
  Cardinality({ p \in 1..Len(rule.drugs) :
                  Inside(names, rule.drugs[p]) \/ Around(names, rule.drugs[p]) })

C5_Expected ==
  LET names == LowerNames
  IN  UNION { LET k == C5_Matched(names, drugInteractions[r])
              IN  IF k >= 2
                  THEN { [interaction |-> drugInteractions[r].interaction,
                          severity    |-> drugInteractions[r].severity,
                          confidence  |-> 8 + (k - 2)] }
                  ELSE {} : r \in 1..Len(drugInteractions) }

\* C5: a rule is emitted iff k >= 2 of its participants fuzzy-match a detected drug,
\* with the rule's description and severity and confidence 0.8 + 0.1 * (k - 2),
\* not clamped.
C5_InteractionScoring ==
  Returned =>
    LET expected == C5_Expected
    IN  /\ EntriesOf(res.interactions) = expected
        /\ Len(res.interactions) = Cardinality(expected)

\* a result with a rule of two matched participants (0.8) and one of five (1.1)
C5_Witness ==
  /\ Returned
  /\ \E i, j \in 1..Len(res.interactions) :
       /\ res.interactions[i].confidence = 11
       /\ res.interactions[j].confidence = 8

\* C6: with fewer than two detected drugs the interactions list is empty and
\* criticalInteractions is 0, for every text and every interaction table.
C6_NoInteractionBelowTwoDrugs ==
  (Returned /\ Len(res.drugs) < 2) =>
    /\ res.interactions = <<>>
    /\ res.summary.criticalInteractions = 0

\* C7: a side-effect rule one of whose associated names fuzzy-matches a detected
\* drug in either direction carries the 0.3 bonus: once its effect is mentioned it is
\* emitted with min(0.6 + 0.3 + adverse bonus, 1.0).
C7_RelatedBonusBidirectional ==
  Returned =>
    LET lt == lowerText
        names == LowerNames
    IN  \A k \in 1..Len(sideEffectPatterns) :
          LET rule == sideEffectPatterns[k]
          IN  (/\ Mentioned(lt, rule.effect)
               /\ \E d \in 1..Len(rule.drugs) :
                    Inside(names, rule.drugs[d]) \/ Around(names, rule.drugs[d]))
                => \E i \in 1..Len(res.sideEffects) :
                     /\ res.sideEffects[i].effect = rule.effect
                     /\ res.sideEffects[i].confidence = Clamped(9 + (IF AdverseFound(lt) # {} THEN 1 ELSE 0))

C8_Emitted(rule, least) ==
  \E i \in 1..Len(res.interactions) :
    /\ res.interactions[i].interaction = rule.interaction
    /\ res.interactions[i].confidence >= least

\* participants of a rule inside a detected name / around a detected name
C8_Inside(names, rule) == { p \in 1..Len(rule.drugs) : Inside(names, rule.drugs[p]) }
C8_Around(names, rule) == { p \in 1..Len(rule.drugs) : Around(names, rule.drugs[p]) }

\* C8: in the interaction matcher each direction of containment counts on its own:
\* participants inside a detected name are matched, participants around a detected
\* name are matched, and a rule with one of each fires.
C8_EitherDirectionCounts ==
  Returned =>
    LET names == LowerNames
    IN  \A k \in 1..Len(drugInteractions) :
          LET rule == drugInteractions[k]
              inside == C8_Inside(names, rule)
              around == C8_Around(names, rule)
          IN  /\ Cardinality(inside) >= 2 => C8_Emitted(rule, 8 + (Cardinality(inside) - 2))
              /\ Cardinality(around) >= 2 => C8_Emitted(rule, 8 + (Cardinality(around) - 2))
              /\ Cardinality(inside \cup around) >= 2 => C8_Emitted(rule, 8)

\* a fired rule with exactly two matched participants, one only inside a detected
\* name and the other only around one
C8_Witness ==
  /\ Returned
  /\ \E k \in 1..Len(drugInteractions) :
       LET rule == drugInteractions[k]
           inside == C8_Inside(LowerNames, rule)
           around == C8_Around(LowerNames, rule)
       IN  /\ C8_Emitted(rule, 8)
           /\ Cardinality(inside) = 1
           /\ Cardinality(around) = 1
           /\ inside \cap around = {}

\* the raw side-effect score as C9 words it; a related drug is detected when an
\* associated name occurs in a detected drug name (the other direction is C7's)
C9_RawScore(lt, names, rule) ==
  (IF Mentioned(lt, rule.effect) THEN 6 ELSE 0)
  + (IF \E d \in 1..Len(rule.drugs) : Inside(names, rule.drugs[d]) THEN 3 ELSE 0)
  + (IF AdverseFound(lt) # {} THEN 1 ELSE 0)

C9_Expected ==
  LET lt == lowerText
      names == LowerNames
  IN  UNION { LET score == C9_RawScore(lt, names, sideEffectPatterns[k])
              IN  IF score > 4
                  THEN { [effect     |-> sideEffectPatterns[k].effect,
                          frequency  |-> sideEffectPatterns[k].frequency,
                          confidence |-> Clamped(score)] }
                  ELSE {} : k \in 1..Len(sideEffectPatterns) }

\* C9: a side-effect rule scores 0.6 for any word of its effect found in the text,
\* 0.3 for a related detected drug and 0.1 once for any adverse-event keyword; it is
\* emitted iff the score exceeds 0.4, with confidence min(score, 1.0).
C9_SideEffectScoring ==
  Returned =>
    LET expected == C9_Expected
    IN  /\ EntriesOf(res.sideEffects) = expected
        /\ Len(res.sideEffects) = Cardinality(expected)

\* a result with a two-word effect found through one of its words, with a related
\* drug, in a text holding two adverse-event keywords (1.0), next to a rule that a
\* related drug and the keywords (0.4) do not bring over the threshold
C9_Witness ==
  /\ Returned
  /\ Cardinality(AdverseFound(lowerText)) >= 2
  /\ \E i \in 1..Len(res.sideEffects) :
       /\ res.sideEffects[i].confidence = 10
       /\ Len(split(res.sideEffects[i].effect)) = 2
       /\ ~includes(lowerText, toLowerCase(res.sideEffects[i].effect))
  /\ \E k \in 1..Len(sideEffectPatterns) :
       /\ C9_RawScore(lowerText, LowerNames, sideEffectPatterns[k]) = 4
       /\ \A i \in 1..Len(res.sideEffects) :
            res.sideEffects[i].effect # sideEffectPatterns[k].effect

\* C10: totalDrugs is the length of the drugs list, criticalInteractions the number
\* of listed interactions of severity high, majorSideEffects the number of listed side
\* effects of frequency Common.
C10_SummaryCounts ==
  Returned =>
    /\ res.summary.totalDrugs = Len(res.drugs)
    /\ res.summary.criticalInteractions
         = Cardinality({ i \in 1..Len(res.interactions) : res.interactions[i].severity = high })
    /\ res.summary.majorSideEffects
         = Cardinality({ i \in 1..Len(res.sideEffects) : res.sideEffects[i].frequency = Common })

\* a result listing interactions of which some but not all are high and side
\* effects of which some but not all are Common
C10_Witness ==
  /\ Returned
  /\ res.summary.totalDrugs = 2
  /\ res.summary.criticalInteractions = 1
  /\ Len(res.interactions) >= 2
  /\ res.summary.majorSideEffects = 1
  /\ Len(res.sideEffects) >= 2

\* white space as String.prototype.trim and the spec's "whitespace-only" take it
WhiteSpace == {" ", "\n", "\t"}
IsBlank(t) == \A i \in 1..Len(t) : t[i] \in WhiteSpace

\* C11: analysing the empty text or a text of white space only returns a result
\* whose drugs, interactions and sideEffects lists are empty and whose three
\* summary counts are zero, whatever the tables hold.
C11_BlankTextEmptyResult ==
  (Returned /\ IsBlank(text)) =>
    /\ res.drugs = <<>>
    /\ res.interactions = <<>>
    /\ res.sideEffects = <<>>
    /\ res.summary = [totalDrugs |-> 0, criticalInteractions |-> 0, majorSideEffects |-> 0]

\* a white-space text analysed against three full tables
C11_Witness ==
  /\ Returned
  /\ text = <<" ", "\n", " ">>
  /\ Len(drugPatterns) = Len(DrugPool)
  /\ Len(drugInteractions) = Len(InteractionPool)
  /\ Len(sideEffectPatterns) = Len(SideEffectPool)
  /\ res.drugs = <<>>

C13_Fresh(t) ==
  LET lt == toLowerCase(t)
      found == detectDrugs(lt, drugPatterns)
      names == [i \in 1..Len(found) |-> found[i].name]
      inter == detectInteractions(names, drugInteractions)
      side  == detectSideEffects(lt, names, sideEffectPatterns)
  IN  [drugs |-> sortByConfidence(found),
       interactions |-> sortByConfidence(inter),
       sideEffects |-> sortByConfidence(side),
       summary |-> summaryOf(found, inter, side)]

C14_StagesOrderIndependent ==
  LET names == drugNamesOf(drugsSoFar) IN
  /\ phase = "match" =>
        /\ interactionsSoFar =
              detectInteractions(names, SubSeq(drugInteractions, 1, nextRule - 1))
        /\ sideEffectsSoFar =
              detectSideEffects(toLowerCase(text), names,
                                SubSeq(sideEffectPatterns, 1, nextEffect - 1))
  /\ phase = "done" =>
        results = << performNLPAnalysis(text, drugPatterns, drugInteractions,
                                        sideEffectPatterns) >>

\* a call returned whose matchers alternated, the Side-Effect Matcher first, and
\* both found something
C14_Witness ==
  /\ phase = "done"
  /\ Len(order) >= 4
  /\ order[1] = "sideEffect"
  /\ order[2] = "interaction"
  /\ order[3] = "sideEffect"
  /\ order[4] = "interaction"
  /\ res.interactions # <<>>
  /\ res.sideEffects # <<>>

\* C15: for the text "Aspirin 500mg prescribed" and the compiled-in tables,
\* Aspirin is detected with confidence 1.0, no other drug is detected, and the
\* interactions and side-effects lists are empty.
C15_AspirinAlone ==
  (Returned /\ text = <<"A","s","p","i","r","i","n"," ","5","0","0","m","g"," ","p","r","e","s","c","r","i","b","e","d">>) =>
    /\ res.drugs = << [name |-> <<"A","s","p","i","r","i","n">>, confidence |-> 10] >>
    /\ res.interactions = <<>>
    /\ res.sideEffects = <<>>

C15_Witness ==
  /\ Returned
  /\ text = <<"A","s","p","i","r","i","n"," ","5","0","0","m","g"," ","p","r","e","s","c","r","i","b","e","d">>
  /\ tables = <<CompiledDrugPatterns, CompiledDrugInteractions, CompiledSideEffectPatterns>>
  /\ Len(res.drugs) = 1

\* a text that is "warfarin" and "aspirin", in either order and any case, and a
\* space between them
C16_WarfarinAndAspirin(t) ==
  toLowerCase(t) \in { <<"w","a","r","f","a","r","i","n"," ","a","s","p","i","r","i","n">>, <<"a","s","p","i","r","i","n"," ","w","a","r","f","a","r","i","n">> }

\* C16: for a text holding "warfarin" and "aspirin" and nothing else, and the
\* compiled-in tables, exactly one interaction is emitted, the Warfarin + Aspirin
\* rule, with severity high and confidence 0.8; summary.criticalInteractions is 1.
C16_OneInteraction ==
  (Returned /\ C16_WarfarinAndAspirin(text)) =>
    /\ res.interactions =
         << [interaction |-> CompiledDrugInteractions[1].interaction,
             severity    |-> high,
             confidence  |-> 8] >>
    /\ CompiledDrugInteractions[1].drugs = << <<"W","a","r","f","a","r","i","n">>, <<"A","s","p","i","r","i","n">> >>
    /\ res.summary.criticalInteractions = 1

C16_Witness ==
  /\ Returned
  /\ text = <<"a","s","p","i","r","i","n"," ","W","a","r","f","a","r","i","n">>
  /\ tables = <<CompiledDrugPatterns, CompiledDrugInteractions, CompiledSideEffectPatterns>>
  /\ Len(res.interactions) = 1
  /\ Len(res.drugs) = 2

\* C17: a call of handleAnalyze while the article is empty or white space only
\* starts no analysis and leaves isAnalyzing, progress and results as they were;
\* it shows the 'No Content' toast and nothing else.
C17_EmptyInputGuard ==
  [][ (event' = "handleAnalyze" /\ IsBlank(article)) =>
        /\ isAnalyzing' = isAnalyzing
        /\ progress' = progress
        /\ results' = results
        /\ analyses' = analyses
        /\ text' = text
        /\ toast' = "No Content" ]_vars

\* the guard has answered a click on a white-space article, after an analysis
\* that left a result and a progress of 100
C17_Witness ==
  /\ event = "handleAnalyze"
  /\ toast = "No Content"
  /\ article = <<" ", "\n">>
  /\ results # <<>>
  /\ progress = 100
  /\ ~isAnalyzing

\* while a run of handleAnalyze waits for a timer, isAnalyzing is true and the
\* values passed to setProgress are 0 and the first steps, in order
C20_Running ==
  \A i \in 1..Len(analyses) :
    /\ isAnalyzing
    /\ progressLog = <<0>> \o SubSeq(steps, 1, analyses[i].step)
    /\ progress = progressLog[Len(progressLog)]

\* a step that writes results ends a run that has passed all six values
C20_Write ==
  results' # results =>
    /\ isAnalyzing
    /\ progress = 100
    /\ progressLog = <<0, 20, 40, 60, 80, 100>>
    /\ ~isAnalyzing'

\* C20: during a run of handleAnalyze on a non-blank article, progress is set to
\* 0, 20, 40, 60, 80, 100 in that order, isAnalyzing is true throughout, and
\* results is written only after progress has reached 100.
C20_ProgressBeforeResults == [](C20_Running) /\ [][C20_Write]_vars

\* a run has ended and written its result
C20_Witness ==
  /\ event = "handleAnalyze:done"
  /\ results # <<>>
  /\ res.drugs # <<>>
  /\ progressLog = <<0, 20, 40, 60, 80, 100>>
  /\ progress = 100

\* the whole text of a file, as a successful upload writes it to the article
C18_WholeText(file) ==
  IF file.type = pdfType
  THEN trim(file.pages[1] \o <<"\n", "\n">> \o file.pages[2] \o <<"\n", "\n">>)
  ELSE file.pages[1]

\* the article is a typed text or the whole text of a file, never a part of one
C18_NoPartialText ==
  article \in TypedTexts \cup { C18_WholeText(file) : file \in Files }

\* C18: an upload that fails (the read of a text file or the extraction of a
\* PDF) shows the 'Upload Failed' toast and leaves results and the article as
\* they were; no part of the failed file's text reaches the article.
C18_FailedUploadLeavesState ==
  /\ [](C18_NoPartialText)
  /\ [][ event' = "handleFileUpload:catch" =>
           /\ toast' = "Upload Failed"
           /\ results' = results
           /\ article' = article
           /\ text' = text ]_vars

\* the extraction of the PDF has failed on its second page, the first one read,
\* with a result stored and an article typed
C18_Witness ==
  /\ event = "handleFileUpload:catch"
  /\ toast = "Upload Failed"
  /\ pdfProgress = 100
  /\ ~isProcessingPdf
  /\ uploadedFileName = <<>>
  /\ results # <<>>
  /\ article = <<"A","s","p","i","r","i","n"," ","5","0","0","m","g"," ","p","r","e","s","c","r","i","b","e","d">>

\* the lines of a text, cut at every newline
RECURSIVE C19_Lines(_)
C19_Lines(s) ==
  LET breaks == { k \in 1..Len(s) : s[k] = "\n" }
  IN  IF breaks = {} THEN << s >>
      ELSE LET first == CHOOSE k \in breaks : \A j \in breaks : k <= j
           IN  << SubSeq(s, 1, first - 1) >> \o C19_Lines(SubSeq(s, first + 1, Len(s)))

\* the lines from..to that are not blank, in order
C19_Entries(lines, from, to) ==
  SelectSeq(SubSeq(lines, from, to), LAMBDA l : ~IsBlank(l))

C19_Upper(severity) ==
  IF severity = high THEN <<"H","I","G","H">> ELSE IF severity = medium THEN <<"M","E","D","I","U","M">> ELSE <<"L","O","W">>

C19_Headers == << <<"S","U","M","M","A","R","Y",":">>, <<"D","R","U","G","S"," ","I","D","E","N","T","I","F","I","E","D",":">>, <<"D","R","U","G"," ","I","N","T","E","R","A","C","T","I","O","N","S",":">>, <<"S","I","D","E"," ","E","F","F","E","C","T","S",":">> >>

\* the export t of the result r: the four headers, once each and in order; the
\* three counts under SUMMARY; under each of the other headers one line per
\* entry of the list, in the list's order, the severity in upper case
C19_Export(t, r) ==
  LET lines == C19_Lines(t)
      at(h) == { k \in 1..Len(lines) : lines[k] = C19_Headers[h] }
      pos(h) == CHOOSE k \in at(h) : TRUE
      drugLines == C19_Entries(lines, pos(2) + 1, pos(3) - 1)
      interactionLines == C19_Entries(lines, pos(3) + 1, pos(4) - 1)
      sideEffectLines == C19_Entries(lines, pos(4) + 1, Len(lines))
  IN  /\ \A h \in 1..4 : Cardinality(at(h)) = 1
      /\ pos(1) < pos(2) /\ pos(2) < pos(3) /\ pos(3) < pos(4)
      /\ lines[pos(1) + 1] = <<"-"," ","T","o","t","a","l"," ","D","r","u","g","s"," ","F","o","u","n","d",":"," ">> \o toString(r.summary.totalDrugs)
      /\ lines[pos(1) + 2] =
           <<"-"," ","C","r","i","t","i","c","a","l"," ","I","n","t","e","r","a","c","t","i","o","n","s",":"," ">> \o toString(r.summary.criticalInteractions)
      /\ lines[pos(1) + 3] =
           <<"-"," ","M","a","j","o","r"," ","S","i","d","e"," ","E","f","f","e","c","t","s",":"," ">> \o toString(r.summary.majorSideEffects)
      /\ C19_Entries(lines, pos(1) + 1, pos(2) - 1) = SubSeq(lines, pos(1) + 1, pos(1) + 3)
      /\ Len(drugLines) = Len(r.drugs)
      /\ \A i \in 1..Len(r.drugs) : includes(drugLines[i], r.drugs[i].name)
      /\ Len(interactionLines) = Len(r.interactions)
      /\ \A i \in 1..Len(r.interactions) :
           /\ includes(interactionLines[i], r.interactions[i].interaction)
           /\ includes(interactionLines[i],
                       <<"(">> \o C19_Upper(r.interactions[i].severity) \o <<" ","s","e","v","e","r","i","t","y",")">>)
      /\ Len(sideEffectLines) = Len(r.sideEffects)
      /\ \A i \in 1..Len(r.sideEffects) :
           includes(sideEffectLines[i], r.sideEffects[i].effect)

\* C19: the text copyResults puts on the clipboard has the sections SUMMARY,
\* DRUGS IDENTIFIED, DRUG INTERACTIONS, SIDE EFFECTS in that order, one line per
\* entry of each list in the list's order, the summary counts under SUMMARY and
\* every severity in upper case; while results is null, copyResults writes
\* nothing and changes no state.
C19_ExportOfResults ==
  /\ clipboard # <<>> => (Returned /\ C19_Export(clipboard[1], res))
  /\ results = <<>> =>
        (clipboard = <<>> /\ ~copied /\ copyTimers = 0 /\ toast = "" /\ event = "")

\* a result with two drugs, an interaction and a side effect has been copied
C19_Witness ==
  /\ clipboard # <<>>
  /\ copied
  /\ Len(res.drugs) = 2
  /\ res.drugs[1].name # res.drugs[2].name
  /\ Len(res.interactions) = 1
  /\ Len(res.sideEffects) = 1

\* C21: every started analysis ends with isAnalyzing false, whether the analysis
\* returns or throws, the timers firing: isAnalyzing never stays true for ever.
C21_AnalyzingEnds == isAnalyzing ~> ~isAnalyzing

\* a run has ended in the catch block and the button is enabled again
C21_Witness ==
  /\ event = "handleAnalyze:catch"
  /\ toast = "Analysis Failed"
  /\ ~isAnalyzing
  /\ analyses = <<>>
  /\ progress = 100

\* at most one run of handleAnalyze waits, and exactly when isAnalyzing is true
C22_OneRun ==
  /\ Len(analyses) <= 1
  /\ isAnalyzing <=> (Len(analyses) = 1)

\* a step that writes results ends the one run in flight; a click that is
\* accepted starts the one run
C22_OneWrite ==
  /\ (results' # results \/ event' = "handleAnalyze:done") =>
        (Len(analyses) = 1 /\ analyses' = <<>>)
  /\ Len(analyses') > Len(analyses) => (~isAnalyzing /\ analyses = <<>>)

\* C22: at most one analysis is in flight at any time: a run of handleAnalyze
\* starts only while isAnalyzing is false, two runs never overlap, and results
\* is written at most once per accepted click.
C22_OneAnalysisInFlight == [](C22_OneRun) /\ [][C22_OneWrite]_vars

\* a second run is in flight after a first one has written its result
C22_Witness ==
  /\ isAnalyzing
  /\ Len(analyses) = 1
  /\ analyses[1].step = 3
  /\ results # <<>>
  /\ text # analyses[1].article

\* an accepted click starts a run that keeps the article of that instant, and a
\* run keeps it for as long as it waits
C23_Click ==
  /\ Len(analyses') > Len(analyses) =>
        analyses'[Len(analyses')].article = article
  /\ (Len(analyses') = Len(analyses) /\ analyses # <<>>) =>
        analyses'[1].article = analyses[1].article

\* the step that stores results stores the analysis of the text the run has kept
C23_Stored ==
  (results' # results \/ event' = "handleAnalyze:done") =>
    /\ Len(analyses) = 1
    /\ text' = analyses[1].article
    /\ results' = << performNLPAnalysis(analyses[1].article, drugPatterns,
                                        drugInteractions, sideEffectPatterns) >>

\* C23: the results an analysis stores are the analysis of the article as it was
\* when Analyze was clicked, also when the article has been typed over or
\* replaced by an uploaded file while the analysis was in progress.
C23_ResultsOfClickTimeText == [][C23_Click /\ C23_Stored]_vars

\* an analysis of a typed article has ended after notes.txt replaced the article
C23_Witness ==
  /\ event = "handleAnalyze:done"
  /\ text = <<"A","s","p","i","r","i","n"," ","5","0","0","m","g"," ","p","r","e","s","c","r","i","b","e","d">>
  /\ article = <<"w","a","r","f","a","r","i","n"," ","a","s","p","i","r","i","n">>
  /\ uploadedFileName = << "notes.txt" >>
  /\ results # <<>>
  /\ Len(results[1].drugs) = 1
  /\ results[1].interactions = <<>>

\* the last step was the successful end of an upload, no upload is pending and
\* none has failed since uploads began to overlap
C24_AllLoaded ==
  /\ uploads = <<>>
  /\ lastPicked # <<>>
  /\ ~batchFailed
  /\ event \in {"handleFileUpload:loaded", "handleFileUpload:processed"}

\* the article and the name are those of the file picked last
C24_ShowsLastPicked ==
  /\ article = C18_WholeText(lastPicked[1].file)
  /\ uploadedFileName = << lastPicked[1].file.name >>

\* the upload of the file picked last has succeeded
C24_LastLoaded == lastPicked # <<>> /\ lastPicked[1].outcome = "loaded"

\* C24: when uploads overlap, after all of them have completed successfully the
\* article holds the text of the file picked last and uploadedFileName is that
\* file's name; and the failure of an earlier upload does not clear the name of a
\* later upload that succeeds.
C24_LastUploadWins ==
  /\ C24_AllLoaded => C24_ShowsLastPicked
  /\ C24_LastLoaded => uploadedFileName = << lastPicked[1].file.name >>

\* what the lowercased text lt holds of a drug row: its name, which of its
\* aliases, and which context keywords
C25_Named(lt, drug) == includes(lt, toLowerCase(drug.name))
C25_Aliases(lt, drug) ==
  { a \in 1..Len(drug.aliases) : includes(lt, toLowerCase(drug.aliases[a])) }
C25_Context(lt) == { k \in 1..Len(medicalContext) : includes(lt, medicalContext[k]) }

\* the entries of the drugs list that carry the name of a row
C25_EntriesOf(drug) == { i \in 1..Len(res.drugs) : res.drugs[i].name = drug.name }

\* C25: a drug row is emitted iff its name or one of its aliases occurs in the
\* text, letter case aside; context keywords alone emit nothing, and a row found
\* through aliases only gets nothing for context keywords.
C25_EmittedIffNamedOrAliased ==
  Returned =>
    LET lt == lowerText
    IN  \A k \in 1..Len(drugPatterns) :
          LET drug == drugPatterns[k]
              named == C25_Named(lt, drug)
              aliases == C25_Aliases(lt, drug)
              entries == C25_EntriesOf(drug)
          IN  /\ (entries # {}) <=> (named \/ aliases # {})
              /\ (~named /\ aliases # {}) =>
                    \A i \in entries :
                      res.drugs[i].confidence = Clamped(8 * Cardinality(aliases))

\* a text with context keywords and the alias of one row only: that row is
\* emitted at 0.8, another row of the table is not emitted
C25_Witness ==
  /\ Returned
  /\ Cardinality(C25_Context(lowerText)) >= 2
  /\ \E k, m \in 1..Len(drugPatterns) :
       /\ ~C25_Named(lowerText, drugPatterns[k])
       /\ C25_Aliases(lowerText, drugPatterns[k]) # {}
       /\ \E i \in C25_EntriesOf(drugPatterns[k]) : res.drugs[i].confidence = 8
       /\ C25_EntriesOf(drugPatterns[m]) = {}

\* the confidence C26 gives a matched row
C26_Value(named, aliases, context) ==
  IF ~named /\ aliases = 1 THEN 8
  ELSE IF named /\ aliases = 0 /\ context = 0 THEN 9
  ELSE 10

\* C26: an emitted drug confidence is 0.8 (one alias found, the name absent), 0.9
\* (the name found, no alias and no context keyword) or 1.0 (every other match),
\* and nothing else, for any text and any drug table.
C26_ThreeConfidences ==
  Returned =>
    LET lt == lowerText
        context == Cardinality(C25_Context(lt))
    IN  \A i \in 1..Len(res.drugs) :
          LET drug == drugPatterns[DrugRow(res.drugs[i].name)]
          IN  /\ res.drugs[i].confidence \in {8, 9, 10}
              /\ res.drugs[i].confidence =
                    C26_Value(C25_Named(lt, drug),
                              Cardinality(C25_Aliases(lt, drug)), context)

\* a result with a row found by one alias (0.8), a row found by its name (0.9) in
\* a text without context keywords
C26_Witness ==
  /\ Returned
  /\ C25_Context(lowerText) = {}
  /\ \E i, j \in 1..Len(res.drugs) :
       /\ res.drugs[i].confidence = 8
       /\ res.drugs[j].confidence = 9

\* the entries of the sideEffects list that carry the effect of a rule
C27_EntriesOf(rule) ==
  { i \in 1..Len(res.sideEffects) : res.sideEffects[i].effect = rule.effect }

\* C27: a side-effect rule is emitted iff a word of its effect occurs in the text:
\* a related detected drug with an adverse-event keyword scores 0.4, which is not
\* over the threshold, so every emitted side-effect confidence is at least 0.6.
C27_EmittedIffMentioned ==
  Returned =>
    LET lt == lowerText
    IN  /\ \A k \in 1..Len(sideEffectPatterns) :
             (C27_EntriesOf(sideEffectPatterns[k]) # {})
               <=> Mentioned(lt, sideEffectPatterns[k].effect)
        /\ \A i \in 1..Len(res.sideEffects) : res.sideEffects[i].confidence >= 6

\* a rule with a related detected drug in a text with an adverse-event keyword
\* and no word of its effect is left out, next to a rule that is emitted
C27_Witness ==
  /\ Returned
  /\ res.sideEffects # <<>>
  /\ \E k \in 1..Len(sideEffectPatterns) :
       /\ ~Mentioned(lowerText, sideEffectPatterns[k].effect)
       /\ \E d \in 1..Len(sideEffectPatterns[k].drugs) :
            Inside(LowerNames, sideEffectPatterns[k].drugs[d])
       /\ AdverseFound(lowerText) # {}
       /\ C27_EntriesOf(sideEffectPatterns[k]) = {}

\* the entry of the first compiled-in rule, Warfarin with Aspirin, at 0.8
C28_WarfarinAspirin ==
  [interaction |-> CompiledDrugInteractions[1].interaction,
   severity    |-> high,
   confidence  |-> 8]

\* C28: with the compiled-in tables the interactions list has at most one entry,
\* the Warfarin + Aspirin rule at 0.8: the four rules that name a category or a
\* class never fire, the detected drugs being matched by name.
C28_OnlyWarfarinAspirin ==
  Returned =>
    /\ CompiledDrugInteractions[1].drugs = << <<"W","a","r","f","a","r","i","n">>, <<"A","s","p","i","r","i","n">> >>
    /\ Len(res.interactions) <= 1
    /\ \A i \in 1..Len(res.interactions) : res.interactions[i] = C28_WarfarinAspirin
    /\ (res.interactions # <<>>) <=>
          ({ <<"w","a","r","f","a","r","i","n">>, <<"a","s","p","i","r","i","n">> } \subseteq LowerNames)

\* all ten drugs of the table are detected and one interaction is listed
C28_Witness ==
  /\ Returned
  /\ Len(res.drugs) = Len(CompiledDrugPatterns)
  /\ Len(res.interactions) = 1

====
